---- MODULE Spec2Model ----
(***************************************************************************)
(* SEP-10 web authentication helpers of js-aiblocks-sdk (namespace Utils): *)
(* buildChallengeTx, readChallengeTx, verifyChallengeTxSigners,            *)
(* verifyChallengeTxThreshold, verifyTxSignedBy and gatherTxSigners.       *)
(*                                                                         *)
(* Strings of the program are TLA+ strings.  A value that may be absent    *)
(* (a transaction's timeBounds, a signer's weight, the homeDomains         *)
(* argument) is a sequence of length 0 or 1.  A thrown error is a result   *)
(* record with ok = FALSE and the error's message.                         *)
(***************************************************************************)
EXTENDS Integers, Sequences, FiniteSets, TLC

VARIABLES now, challenge, built, call

vars == <<now, challenge, built, call>>

(***************************************************************************)
(* Bounds of the model.                                                    *)
(***************************************************************************)
MaxNow == 3
MaxSigs == 3
MaxSigners == 2
MaxOps == 2

(***************************************************************************)
(* Program constants.                                                      *)
(***************************************************************************)
TimeoutInfinite == 0
DefaultTimeout == 300
ChallengeBytes == 48

(***************************************************************************)
(* Account strings.  The last character of a public key stands for the     *)
(* last four bytes of the key, which are its signature hint: GB3 and GC3   *)
(* are two keys with the same hint.                                        *)
(***************************************************************************)
ServerKey == "GS1"
PublicKeys == {"GS1", "GA2", "GB3", "GC3"}
MalformedKey == "GZ9"
MuxedAccount == "MA2"
MuxedServer == "MS1"
PreauthTxHash == "TA2"
HashX == "XA2"
SecretSeed == "SA2"

Range(s) == {s[i] : i \in 1..Len(s)}

SeqsUpTo(S, n) == UNION {[1..k -> S] : k \in 0..n}

RemoveAt(s, i) == SubSeq(s, 1, i - 1) \o SubSeq(s, i + 1, Len(s))

IndexOf(s, x) ==
  IF x \in Range(s) THEN CHOOSE i \in 1..Len(s) : s[i] = x /\ \A j \in 1..(i - 1) : s[j] # x
  ELSE 0

StartsWith(s, c) == Len(s) > 0 /\ SubSeq(s, 1, 1) = c

(***************************************************************************)
(* Keypair of the base library: fromPublicKey throws on every string that  *)
(* is not a well-formed G... public key; signatureHint is the tail of the  *)
(* key; verify accepts exactly the signatures made with the key's secret   *)
(* over the given hash.                                                    *)
(***************************************************************************)
FromPublicKeyThrowsPrefixOnly(s) == ~(Len(s) > 0 /\ SubSeq(s, 1, 1) = "G")

FromPublicKeyThrows(s) == s \notin PublicKeys

SignatureHint(pk) == SubSeq(pk, Len(pk), Len(pk))

KeypairVerify(pk, decSig) == decSig.key = pk /\ decSig.overTxHash

\* transaction.sign(keypair): a decorated signature over the transaction hash
DecoratedSignature(pk) == [hint |-> SignatureHint(pk), key |-> pk, overTxHash |-> TRUE]

(***************************************************************************)
(* Results.                                                                *)
(***************************************************************************)
Throw(msg) ==
  [ok |-> FALSE, err |-> msg, clientAccountID |-> "", matchedHomeDomain |-> "",
   signers |-> <<>>, detail |-> <<>>]

ThrowWith(msg, d) == [Throw(msg) EXCEPT !.detail = d]

ReturnRead(c, d) ==
  [ok |-> TRUE, err |-> "", clientAccountID |-> c, matchedHomeDomain |-> d,
   signers |-> <<>>, detail |-> <<>>]

ReturnSigners(l) ==
  [ok |-> TRUE, err |-> "", clientAccountID |-> "", matchedHomeDomain |-> "",
   signers |-> l, detail |-> <<>>]

ErrMuxedClient == "Invalid clientAccountID: multiplexed accounts are not supported."
ErrMuxedServer == "Invalid serverAccountID: multiplexed accounts are not supported."
ErrXdr == "XDR Read Error"
ErrFeeBump == "Invalid challenge: expected a Transaction but received a FeeBumpTransaction"
ErrSequence == "The transaction sequence number should be zero"
ErrSource == "The transaction source account is not equal to the server's account"
ErrNoOperation == "The transaction should contain at least one operation"
ErrOpSource == "The transaction's operation should contain a source account"
ErrOpType == "The transaction's operation type should be 'manageData'"
ErrInfinite == "The transaction requires non-infinite timebounds"
ErrExpired == "The transaction has expired"
ErrNoHomeDomains == "Invalid homeDomains: a home domain must be provided for verification"
ErrHomeDomainsType(type) ==
  "Invalid homeDomains: homeDomains type is " \o type \o " but should be a string or an array"
ErrHomeDomainMismatch == "Invalid homeDomains: the transaction's operation key name does not match the expected home domain"
ErrLaterOpType == "The transaction has operations that are not of type 'manageData'"
ErrLaterOpSource == "The transaction has operations that are unrecognized"
ErrServerKeypair == "Couldn't infer keypair from the provided 'serverAccountID'"
ErrNoClientSigners == "No verifiable client signers provided, at least one G... address must be provided"
ErrNotSignedByServer(id) == "Transaction not signed by server: '" \o id \o "'"
ErrNoneMatch == "None of the given signers match the transaction signatures"
ErrUnrecognized == "Transaction has unrecognized signatures"
ErrThreshold == "signers with weight <weight> do not meet threshold <threshold>"
ErrInvalidSigner == "Signer is not a valid address"
ErrBuilder == "invalid source account"

(***************************************************************************)
(* buildChallengeTx                                                        *)
(***************************************************************************)
\* randomBytes(48).toString("base64"): four characters for every three bytes
Base64Length(nBytes) == 4 * ((nBytes + 2) \div 3)

\* the number of '=' characters that end the base64 text of nBytes bytes
Base64Padding(nBytes) == (3 - (nBytes % 3)) % 3

\* Buffer.from(text, "base64").length
Base64DecodedLength(length, padding) == (length \div 4) * 3 - padding

\* the key of the manage-data operation: `${homeDomain} auth`
KeyNameNoSpace(homeDomain) == homeDomain \o "auth"

KeyName(homeDomain) == homeDomain \o " auth"

ManageData(name, value, source) ==
  [type |-> "manageData", source |-> source, name |-> name, value |-> value]

\* timeout: <<>> when the argument is omitted (the default applies)
TimeoutOrDefaultAlways(timeout) == DefaultTimeout

TimeoutOrDefault(timeout) == IF timeout = <<>> THEN DefaultTimeout ELSE timeout[1]

\* the envelope that buildChallengeTx serialises; the builder turns the
\* account's sequence number -1 into -1 + 1
ChallengeEnvelope(serverKeypair, clientAccountID, homeDomain, timeout, t, nonce) ==
  [envelope |-> "tx",
   sequence |-> -1 + 1,
   source |-> serverKeypair,
   timeBounds |-> <<[minTime |-> t, maxTime |-> t + TimeoutOrDefault(timeout)]>>,
   operations |-> <<ManageData(KeyName(homeDomain),
                               [nonce |-> nonce,
                                length |-> Base64Length(ChallengeBytes),
                                padding |-> Base64Padding(ChallengeBytes)],
                               clientAccountID)>>,
   signatures |-> <<DecoratedSignature(serverKeypair)>>]

\* [ok, err, challenge, effects]: the error thrown or the envelope returned,
\* and what the call did on the way: reading the clock, drawing random
\* bytes, signing
BuildChallengeTxLateCheck(serverKeypair, clientAccountID, homeDomain, timeout, t, nonce) ==
  IF StartsWith(clientAccountID, "M")
    THEN [ok |-> FALSE, err |-> ErrMuxedClient, challenge |-> <<>>,
          effects |-> <<"Date.now", "randomBytes">>]
  ELSE IF clientAccountID # "" /\ FromPublicKeyThrows(clientAccountID)
    THEN [ok |-> FALSE, err |-> ErrBuilder, challenge |-> <<>>,
          effects |-> <<"Date.now", "randomBytes">>]
  ELSE [ok |-> TRUE, err |-> "",
        challenge |-> <<ChallengeEnvelope(serverKeypair, clientAccountID, homeDomain,
                                          timeout, t, nonce)>>,
        effects |-> <<"Date.now", "randomBytes", "sign">>]

BuildChallengeTx(serverKeypair, clientAccountID, homeDomain, timeout, t, nonce) ==
  IF StartsWith(clientAccountID, "M")
    THEN [ok |-> FALSE, err |-> ErrMuxedClient, challenge |-> <<>>, effects |-> <<>>]
  ELSE IF clientAccountID # "" /\ FromPublicKeyThrows(clientAccountID)
    THEN [ok |-> FALSE, err |-> ErrBuilder, challenge |-> <<>>,
          effects |-> <<"Date.now", "randomBytes">>]
  ELSE [ok |-> TRUE, err |-> "",
        challenge |-> <<ChallengeEnvelope(serverKeypair, clientAccountID, homeDomain,
                                          timeout, t, nonce)>>,
        effects |-> <<"Date.now", "randomBytes", "sign">>]

(***************************************************************************)
(* readChallengeTx                                                         *)
(***************************************************************************)
\* transaction.timeBounds && parseInt(transaction.timeBounds.maxTime) === TimeoutInfinite
InfiniteTimeboundsNever(transaction) == FALSE

InfiniteTimebounds(transaction) ==
  /\ transaction.timeBounds # <<>>
  /\ transaction.timeBounds[1].maxTime = TimeoutInfinite

ValidateTimeboundsMinOnly(transaction, t) ==
  IF transaction.timeBounds = <<>> THEN FALSE
  ELSE t >= transaction.timeBounds[1].minTime

ValidateTimeboundsMaxOnly(transaction, t) ==
  IF transaction.timeBounds = <<>> THEN FALSE
  ELSE t <= transaction.timeBounds[1].maxTime

ValidateTimeboundsLate(transaction, t) ==
  IF transaction.timeBounds = <<>> THEN FALSE
  ELSE t >= transaction.timeBounds[1].minTime /\ t < transaction.timeBounds[1].maxTime

ValidateTimebounds(transaction, t) ==
  IF transaction.timeBounds = <<>> THEN FALSE
  ELSE t >= transaction.timeBounds[1].minTime /\ t <= transaction.timeBounds[1].maxTime

\* homeDomains: [type |-> "undefined"], [type |-> "string", str |-> s],
\* [type |-> "array", arr |-> <<...>>] or [type |-> "number", num |-> n]
HomeDomainsFalsy(homeDomains) ==
  \/ homeDomains.type = "undefined"
  \/ homeDomains.type = "string" /\ homeDomains.str = ""
  \/ homeDomains.type = "number" /\ homeDomains.num = 0

\* Array.prototype.find: the first element that matches, <<>> when none does
FindDomain(arr, name) ==
  LET hits == {i \in 1..Len(arr) : (arr[i] \o " auth") = name}
  IN IF hits = {} THEN <<>>
     ELSE <<arr[CHOOSE i \in hits : \A j \in hits : i <= j]>>

\* the value of matchedHomeDomain: <<>> for undefined
MatchHomeDomain(homeDomains, name) ==
  IF homeDomains.type = "string"
    THEN IF (homeDomains.str \o " auth") = name THEN <<homeDomains.str>> ELSE <<>>
  ELSE FindDomain(homeDomains.arr, name)

\* !matchedHomeDomain: undefined and the empty string are both falsy
NoMatchUndefinedOnly(matchedHomeDomain) == matchedHomeDomain = <<>>

NoMatch(matchedHomeDomain) == matchedHomeDomain = <<>> \/ matchedHomeDomain = <<"">>

\* the loop over subsequentOperations: "" when it runs through
SubsequentOperationsTypesFirst(ops, serverAccountID) ==
  IF \E i \in 1..Len(ops) : ops[i].type # "manageData" THEN ErrLaterOpType
  ELSE IF \E i \in 1..Len(ops) : ops[i].source # serverAccountID THEN ErrLaterOpSource
  ELSE ""

RECURSIVE SubsequentOperations(_, _)
SubsequentOperations(ops, serverAccountID) ==
  IF ops = <<>> THEN ""
  ELSE IF Head(ops).type # "manageData" THEN ErrLaterOpType
  ELSE IF Head(ops).source # serverAccountID THEN ErrLaterOpSource
  ELSE SubsequentOperations(Tail(ops), serverAccountID)

\* transaction.source !== serverAccountID
SourceMismatchOrUnsigned(transaction, serverAccountID) ==
  \/ transaction.source # serverAccountID
  \/ \A i \in 1..Len(transaction.signatures) :
       ~KeypairVerify(serverAccountID, transaction.signatures[i])

SourceMismatch(transaction, serverAccountID) == transaction.source # serverAccountID

\* readChallengeTx with the source checked before the sequence number
ReadChallengeTxSourceFirst(challengeTx, serverAccountID, homeDomains, t) ==
  IF StartsWith(serverAccountID, "M") THEN Throw(ErrMuxedServer)
  ELSE IF challengeTx.envelope = "undecodable" THEN Throw(ErrXdr)
  ELSE IF challengeTx.envelope # "tx" THEN Throw(ErrFeeBump)
  ELSE IF challengeTx.source # serverAccountID THEN Throw(ErrSource)
  ELSE IF challengeTx.sequence # 0 THEN Throw(ErrSequence)
  ELSE IF Len(challengeTx.operations) < 1 THEN Throw(ErrNoOperation)
  ELSE LET operation == Head(challengeTx.operations)
           subsequentOperations == Tail(challengeTx.operations)
       IN
    IF operation.source = "" THEN Throw(ErrOpSource)
    ELSE IF operation.type # "manageData" THEN Throw(ErrOpType)
    ELSE IF InfiniteTimebounds(challengeTx) THEN Throw(ErrInfinite)
    ELSE IF ~ValidateTimebounds(challengeTx, t) THEN Throw(ErrExpired)
    ELSE IF HomeDomainsFalsy(homeDomains) THEN Throw(ErrNoHomeDomains)
    ELSE IF homeDomains.type \notin {"string", "array"} THEN Throw(ErrHomeDomainsType(homeDomains.type))
    ELSE LET matchedHomeDomain == MatchHomeDomain(homeDomains, operation.name) IN
      IF NoMatch(matchedHomeDomain) THEN Throw(ErrHomeDomainMismatch)
      ELSE LET later == SubsequentOperations(subsequentOperations, serverAccountID) IN
        IF later # "" THEN Throw(later)
        ELSE ReturnRead(operation.source, matchedHomeDomain[1])

\* the same checks with the envelope decoded before the server address is looked at
ReadChallengeTxDecodeFirst(challengeTx, serverAccountID, homeDomains, t) ==
  IF challengeTx.envelope = "undecodable" THEN Throw(ErrXdr)
  ELSE IF StartsWith(serverAccountID, "M") THEN Throw(ErrMuxedServer)
  ELSE IF challengeTx.envelope # "tx" THEN Throw(ErrFeeBump)
  ELSE IF challengeTx.sequence # 0 THEN Throw(ErrSequence)
  ELSE IF SourceMismatch(challengeTx, serverAccountID) THEN Throw(ErrSource)
  ELSE IF Len(challengeTx.operations) < 1 THEN Throw(ErrNoOperation)
  ELSE LET operation == Head(challengeTx.operations)
           subsequentOperations == Tail(challengeTx.operations)
       IN
    IF operation.source = "" THEN Throw(ErrOpSource)
    ELSE IF operation.type # "manageData" THEN Throw(ErrOpType)
    ELSE IF InfiniteTimebounds(challengeTx) THEN Throw(ErrInfinite)
    ELSE IF ~ValidateTimebounds(challengeTx, t) THEN Throw(ErrExpired)
    ELSE IF HomeDomainsFalsy(homeDomains) THEN Throw(ErrNoHomeDomains)
    ELSE IF homeDomains.type \notin {"string", "array"} THEN Throw(ErrHomeDomainsType(homeDomains.type))
    ELSE LET matchedHomeDomain == MatchHomeDomain(homeDomains, operation.name) IN
      IF NoMatch(matchedHomeDomain) THEN Throw(ErrHomeDomainMismatch)
      ELSE LET later == SubsequentOperations(subsequentOperations, serverAccountID) IN
        IF later # "" THEN Throw(later)
        ELSE ReturnRead(operation.source, matchedHomeDomain[1])

ReadChallengeTx(challengeTx, serverAccountID, homeDomains, t) ==
  IF StartsWith(serverAccountID, "M") THEN Throw(ErrMuxedServer)
  ELSE IF challengeTx.envelope = "undecodable" THEN Throw(ErrXdr)
  ELSE IF challengeTx.envelope # "tx" THEN Throw(ErrFeeBump)
  ELSE IF challengeTx.sequence # 0 THEN Throw(ErrSequence)
  ELSE IF SourceMismatch(challengeTx, serverAccountID) THEN Throw(ErrSource)
  ELSE IF Len(challengeTx.operations) < 1 THEN Throw(ErrNoOperation)
  ELSE LET operation == Head(challengeTx.operations)
           subsequentOperations == Tail(challengeTx.operations)
       IN
    IF operation.source = "" THEN Throw(ErrOpSource)
    ELSE IF operation.type # "manageData" THEN Throw(ErrOpType)
    ELSE IF InfiniteTimebounds(challengeTx) THEN Throw(ErrInfinite)
    ELSE IF ~ValidateTimebounds(challengeTx, t) THEN Throw(ErrExpired)
    ELSE IF HomeDomainsFalsy(homeDomains) THEN Throw(ErrNoHomeDomains)
    ELSE IF homeDomains.type \notin {"string", "array"} THEN Throw(ErrHomeDomainsType(homeDomains.type))
    ELSE LET matchedHomeDomain == MatchHomeDomain(homeDomains, operation.name) IN
      IF NoMatch(matchedHomeDomain) THEN Throw(ErrHomeDomainMismatch)
      ELSE LET later == SubsequentOperations(subsequentOperations, serverAccountID) IN
        IF later # "" THEN Throw(later)
        ELSE ReturnRead(operation.source, matchedHomeDomain[1])

(***************************************************************************)
(* gatherTxSigners and verifyTxSignedBy                                    *)
(***************************************************************************)
\* the inner loop: the index of the first remaining signature whose hint is
\* the keypair's and which verifies under it, 0 when there is none
FirstMatchFirstHint(txSignatures, signer) ==
  LET hinted == {i \in 1..Len(txSignatures) : txSignatures[i].hint = SignatureHint(signer)}
      first == IF hinted = {} THEN 0 ELSE CHOOSE i \in hinted : \A j \in hinted : i <= j
  IN IF first # 0 /\ KeypairVerify(signer, txSignatures[first]) THEN first ELSE 0

FirstMatch(txSignatures, signer) ==
  LET hits == {i \in 1..Len(txSignatures) :
                 /\ txSignatures[i].hint = SignatureHint(signer)
                 /\ KeypairVerify(signer, txSignatures[i])}
  IN IF hits = {} THEN 0 ELSE CHOOSE i \in hits : \A j \in hits : i <= j

\* txSignatures.splice(i, 1)
SpliceNothing(array, i) == array

Splice(array, i) == RemoveAt(array, i)

\* clone(transaction.signatures): a new array object holding the same entries
CloneByReference(array) == [shared |-> TRUE, array |-> array]

Clone(array) == [shared |-> FALSE, array |-> array]

\* Set.add on a set kept in insertion order
SetAddAlways(found, x) == Append(found, x)

SetAddFront(found, x) == IF x \in Range(found) THEN found ELSE <<x>> \o found

SetAdd(found, x) == IF x \in Range(found) THEN found ELSE Append(found, x)

\* if (txSignatures.length === 0) break
PoolExhaustedNever(txSignatures) == FALSE

PoolExhausted(txSignatures) == Len(txSignatures) = 0

\* the loop over signers.  txSignatures is the array the loop splices and
\* positions[i] is the place txSignatures[i] has in transaction.signatures;
\* k is the place of Head(signers) in the list passed in, and matches lists
\* the pairs (entry of the list, signature) at which the inner loop broke.
RECURSIVE GatherLoop(_, _, _, _, _, _)
GatherLoop(signers, k, txSignatures, positions, signersFound, matches) ==
  LET done(out) == [out |-> out, txSignatures |-> txSignatures, matches |-> matches] IN
  IF signers = <<>> THEN done(ReturnSigners(signersFound))
  ELSE IF PoolExhausted(txSignatures) THEN done(ReturnSigners(signersFound))
  ELSE LET signer == Head(signers) IN
    IF FromPublicKeyThrows(signer) THEN done(Throw(ErrInvalidSigner))
    ELSE LET i == FirstMatch(txSignatures, signer) IN
      IF i = 0
      THEN GatherLoop(Tail(signers), k + 1, txSignatures, positions, signersFound, matches)
      ELSE GatherLoop(Tail(signers), k + 1, Splice(txSignatures, i), Splice(positions, i),
                      SetAdd(signersFound, signer),
                      Append(matches, [signer |-> k, signature |-> positions[i]]))

\* one call of gatherTxSigners: what it returns or throws, the signatures
\* the transaction holds when the call is over, and the matches made
GatherTxSignersCall(transaction, signers) ==
  LET copy == Clone(transaction.signatures)
      loop == GatherLoop(signers, 1, copy.array, [i \in 1..Len(copy.array) |-> i],
                         <<>>, <<>>)
  IN [out |-> loop.out,
      signatures |-> IF copy.shared THEN loop.txSignatures ELSE transaction.signatures,
      matches |-> loop.matches]

GatherTxSigners(transaction, signers) == GatherTxSignersCall(transaction, signers).out

\* gatherTxSigners(transaction, [accountID]).length !== 0
LengthNotOne(signers) == Len(signers) # 1

LengthNotZero(signers) == Len(signers) # 0

\* one call of verifyTxSignedBy: [ok, err, value] and the signatures the
\* transaction holds when the call is over
VerifyTxSignedByCall(transaction, accountID) ==
  LET gather == GatherTxSignersCall(transaction, <<accountID>>)
      g == gather.out
  IN [out |-> IF g.ok THEN [ok |-> TRUE, err |-> "", value |-> LengthNotZero(g.signers)]
              ELSE [ok |-> FALSE, err |-> g.err, value |-> FALSE],
      signatures |-> gather.signatures]

VerifyTxSignedBy(transaction, accountID) == VerifyTxSignedByCall(transaction, accountID).out

(***************************************************************************)
(* verifyChallengeTxSigners                                                *)
(***************************************************************************)
\* the two `continue`s of the loop that fills clientSigners
IgnoredSignerServerOnly(signer, serverPublicKey) == signer = serverPublicKey

IgnoredSigner(signer, serverPublicKey) ==
  \/ signer = serverPublicKey
  \/ ~StartsWith(signer, "G")

\* signersFound.indexOf(serverKP.publicKey()) === -1
NotSignedByServerIfEmpty(signersFound, serverPublicKey) == Len(signersFound) = 0

NotSignedByServer(signersFound, serverPublicKey) ==
  IndexOf(signersFound, serverPublicKey) = 0

\* clientSigners.size === 0
NoClientSignersNever(clientSigners) == FALSE

NoClientSigners(clientSigners) == Len(clientSigners) = 0

\* signersFound.length === 1
NoneMatchIfEmpty(signersFound) == Len(signersFound) = 0

NoneMatch(signersFound) == Len(signersFound) = 1

\* signersFound.length !== tx.signatures.length
UnrecognizedSignaturesIfFewer(signersFound, transaction) ==
  Len(signersFound) > Len(transaction.signatures)

UnrecognizedSignatures(signersFound, transaction) ==
  Len(signersFound) # Len(transaction.signatures)

\* the loop that fills clientSigners, a set kept in insertion order
RECURSIVE ClientSigners(_, _)
ClientSigners(signers, serverPublicKey) ==
  IF signers = <<>> THEN <<>>
  ELSE LET signer == signers[Len(signers)]
           before == ClientSigners(SubSeq(signers, 1, Len(signers) - 1), serverPublicKey)
       IN IF IgnoredSigner(signer, serverPublicKey) THEN before
          ELSE SetAdd(before, signer)

\* the same call with the test for a matched client ahead of the test for
\* the server signature
VerifyChallengeTxSignersCallNoneMatchFirst(challengeTx, serverAccountID, signers, homeDomains, t) ==
  LET read == ReadChallengeTx(challengeTx, serverAccountID, homeDomains, t)
      before(out) == [out |-> out, signatures |-> challengeTx.signatures]
  IN
  IF ~read.ok THEN before(read)
  ELSE IF FromPublicKeyThrows(serverAccountID) THEN before(Throw(ErrServerKeypair))
  ELSE LET clientSigners == ClientSigners(signers, serverAccountID) IN
    IF NoClientSigners(clientSigners) THEN before(Throw(ErrNoClientSigners))
    ELSE LET allSigners == <<serverAccountID>> \o clientSigners
             gather == GatherTxSignersCall(challengeTx, allSigners)
             gathered == gather.out
             signersFound == gathered.signers
             tx == [challengeTx EXCEPT !.signatures = gather.signatures]
             after(out) == [out |-> out, signatures |-> gather.signatures]
         IN
      IF ~gathered.ok THEN after(gathered)
      ELSE IF NoneMatch(signersFound) THEN after(Throw(ErrNoneMatch))
      ELSE IF NotSignedByServer(signersFound, serverAccountID)
        THEN after(Throw(ErrNotSignedByServer(serverAccountID)))
      ELSE IF UnrecognizedSignatures(signersFound, tx) THEN after(Throw(ErrUnrecognized))
      ELSE after(ReturnSigners(RemoveAt(signersFound, IndexOf(signersFound, serverAccountID))))

\* one call of verifyChallengeTxSigners: what it returns or throws and the
\* signatures the transaction holds when the call is over
VerifyChallengeTxSignersCall(challengeTx, serverAccountID, signers, homeDomains, t) ==
  LET read == ReadChallengeTx(challengeTx, serverAccountID, homeDomains, t)
      before(out) == [out |-> out, signatures |-> challengeTx.signatures]
  IN
  IF ~read.ok THEN before(read)
  ELSE IF FromPublicKeyThrows(serverAccountID) THEN before(Throw(ErrServerKeypair))
  ELSE LET clientSigners == ClientSigners(signers, serverAccountID) IN
    IF NoClientSigners(clientSigners) THEN before(Throw(ErrNoClientSigners))
    ELSE LET allSigners == <<serverAccountID>> \o clientSigners
             gather == GatherTxSignersCall(challengeTx, allSigners)
             gathered == gather.out
             signersFound == gathered.signers
             tx == [challengeTx EXCEPT !.signatures = gather.signatures]
             after(out) == [out |-> out, signatures |-> gather.signatures]
         IN
      IF ~gathered.ok THEN after(gathered)
      ELSE IF NotSignedByServer(signersFound, serverAccountID)
        THEN after(Throw(ErrNotSignedByServer(serverAccountID)))
      ELSE IF NoneMatch(signersFound) THEN after(Throw(ErrNoneMatch))
      ELSE IF UnrecognizedSignatures(signersFound, tx) THEN after(Throw(ErrUnrecognized))
      ELSE after(ReturnSigners(RemoveAt(signersFound, IndexOf(signersFound, serverAccountID))))

VerifyChallengeTxSigners(challengeTx, serverAccountID, signers, homeDomains, t) ==
  VerifyChallengeTxSignersCall(challengeTx, serverAccountID, signers, homeDomains, t).out

(***************************************************************************)
(* verifyChallengeTxThreshold                                              *)
(***************************************************************************)
\* signerSummary.find((s) => s.key === signer)?.weight || 0
SigWeightLast(signerSummary, signer) ==
  LET hits == {i \in 1..Len(signerSummary) : signerSummary[i].key = signer}
  IN IF hits = {} THEN 0
     ELSE LET s == signerSummary[CHOOSE i \in hits : \A j \in hits : i >= j]
          IN IF s.weight = <<>> THEN 0 ELSE s.weight[1]

SigWeight(signerSummary, signer) ==
  LET hits == {i \in 1..Len(signerSummary) : signerSummary[i].key = signer}
  IN IF hits = {} THEN 0
     ELSE LET s == signerSummary[CHOOSE i \in hits : \A j \in hits : i <= j]
          IN IF s.weight = <<>> THEN 0 ELSE s.weight[1]

RECURSIVE SumWeights(_, _)
SumWeights(signersFound, signerSummary) ==
  IF signersFound = <<>> THEN 0
  ELSE SigWeight(signerSummary, Head(signersFound))
         + SumWeights(Tail(signersFound), signerSummary)

\* weight < threshold
BelowThresholdOrEqual(weight, threshold) == weight <= threshold

BelowThreshold(weight, threshold) == weight < threshold

SummaryKeys(signerSummary) == [i \in 1..Len(signerSummary) |-> signerSummary[i].key]

\* one call of verifyChallengeTxThreshold: what it returns or throws and the
\* signatures the transaction holds when the call is over
VerifyChallengeTxThresholdCall(challengeTx, serverAccountID, threshold, signerSummary, homeDomains, t) ==
  LET signers == SummaryKeys(signerSummary)
      verify == VerifyChallengeTxSignersCall(challengeTx, serverAccountID, signers, homeDomains, t)
      found == verify.out
      weight == SumWeights(found.signers, signerSummary)
  IN [out |-> IF ~found.ok THEN found
              ELSE IF BelowThreshold(weight, threshold)
                THEN ThrowWith(ErrThreshold, <<weight, threshold>>)
              ELSE found,
      signatures |-> verify.signatures]

VerifyChallengeTxThreshold(challengeTx, serverAccountID, threshold, signerSummary, homeDomains, t) ==
  VerifyChallengeTxThresholdCall(challengeTx, serverAccountID, threshold, signerSummary, homeDomains, t).out

(***************************************************************************)
(* Arguments of the calls.                                                 *)
(***************************************************************************)
HdUndefined == [type |-> "undefined", str |-> "", arr |-> <<>>, num |-> 0]
HdString(s) == [type |-> "string", str |-> s, arr |-> <<>>, num |-> 0]
HdArray(a) == [type |-> "array", str |-> "", arr |-> a, num |-> 0]
HdNumber(n) == [type |-> "number", str |-> "", arr |-> <<>>, num |-> n]

HomeDomainNames == {"SDF", "Test", ""}
Timeouts == {<<>>, <<0>>, <<1>>, <<2>>}
Nonces == {0, 1}
ClientAccountIDs == {"GA2", "GB3", MuxedAccount}
ServerKeypairs == {ServerKey, "GC3"}
ServerAccountIDs == ServerKeypairs \cup {MuxedServer}
HomeDomainArgs ==
  {HdUndefined, HdString(""), HdString("SDF"), HdString("Test"),
   HdArray(<<"Test", "SDF">>), HdArray(<<"", "SDF">>), HdNumber(5)}

NoCall == [fn |-> "none"]

(***************************************************************************)
(* The challenge flow: the server builds a challenge, clients sign it,     *)
(* time passes, the server reads it back.                                  *)
(*   now        the clock, in whole seconds                                *)
(*   challenge  <<envelope>> of the challenge in flight, <<>> before       *)
(*   built      <<arguments and time of the buildChallengeTx call that     *)
(*              made it>>                                                  *)
(*   call       the call made in this state, with arguments and outcome    *)
(***************************************************************************)
Init ==
  /\ now \in 0..1
  /\ challenge = <<>>
  /\ built = <<>>
  /\ call = NoCall

BuildChallenge ==
  /\ challenge = <<>>
  /\ \E serverKeypair \in ServerKeypairs, clientAccountID \in ClientAccountIDs,
        homeDomain \in HomeDomainNames, timeout \in Timeouts, nonce \in Nonces :
    LET r == BuildChallengeTx(serverKeypair, clientAccountID, homeDomain, timeout, now, nonce)
    IN /\ call' = [fn |-> "buildChallengeTx", clientAccountID |-> clientAccountID, out |-> r]
       /\ IF r.ok
            THEN /\ challenge' = r.challenge
                 /\ built' = <<[serverKeypair |-> serverKeypair,
                                clientAccountID |-> clientAccountID,
                                homeDomain |-> homeDomain,
                                timeout |-> timeout,
                                time |-> now]>>
            ELSE UNCHANGED <<challenge, built>>
       /\ UNCHANGED now

\* transaction.sign(keypair) by a client, the envelope serialised again
ClientSign ==
  /\ challenge # <<>>
  /\ Len(challenge[1].signatures) < MaxSigs
  /\ \E kp \in {"GA2", "GB3"} :
       challenge' = <<[challenge[1] EXCEPT
                         !.signatures = Append(@, DecoratedSignature(kp))]>>
  /\ call' = NoCall
  /\ UNCHANGED <<now, built>>

Tick ==
  /\ now < MaxNow
  /\ now' = now + 1
  /\ call' = NoCall
  /\ UNCHANGED <<challenge, built>>

ReadChallenge ==
  /\ challenge # <<>>
  /\ call.fn \in {"none", "buildChallengeTx"}
  /\ \E serverAccountID \in ServerAccountIDs, homeDomains \in HomeDomainArgs :
       call' = [fn |-> "readChallengeTx",
                serverAccountID |-> serverAccountID,
                homeDomains |-> homeDomains,
                out |-> ReadChallengeTx(challenge[1], serverAccountID, homeDomains, now)]
  /\ UNCHANGED <<now, challenge, built>>

Next == BuildChallenge \/ ClientSign \/ Tick \/ ReadChallenge

Spec == Init /\ [][Next]_vars

(***************************************************************************)
(* C1: a challenge built by buildChallengeTx for a non-multiplexed client, *)
(* a non-empty home domain and a positive timeout, read back with the      *)
(* server's public key and the same home domain at a time t with           *)
(* buildTime <= t <= buildTime + timeout, is accepted, and readChallengeTx *)
(* returns the client account and the home domain it was built with.       *)
(***************************************************************************)
C1_InWindow ==
  /\ call.fn = "readChallengeTx"
  /\ built # <<>>
  /\ call.serverAccountID = built[1].serverKeypair
  /\ call.homeDomains = HdString(built[1].homeDomain)
  /\ built[1].homeDomain # ""
  /\ TimeoutOrDefault(built[1].timeout) >= 1
  /\ built[1].time <= now
  /\ now <= built[1].time + TimeoutOrDefault(built[1].timeout)

C1_RoundTrip ==
  C1_InWindow =>
    /\ call.out.ok
    /\ call.out.clientAccountID = built[1].clientAccountID
    /\ call.out.matchedHomeDomain = built[1].homeDomain

C1_Witness ==
  /\ C1_InWindow
  /\ now = built[1].time + 2
  /\ built[1].timeout = <<2>>
  /\ call.out.ok
  /\ call.out.clientAccountID = "GB3"

(***************************************************************************)
(* C2: for a challenge that passes every other check of readChallengeTx    *)
(* (it is accepted at its minTime), the call succeeds when the clock       *)
(* equals maxTime and fails with 'The transaction has expired' when the    *)
(* clock equals maxTime + 1.                                               *)
(***************************************************************************)
C2_PassesOtherChecks ==
  /\ call.fn = "readChallengeTx"
  /\ challenge[1].timeBounds # <<>>
  /\ ReadChallengeTx(challenge[1], call.serverAccountID, call.homeDomains,
                     challenge[1].timeBounds[1].minTime).ok

C2_ExpiryBoundary ==
  C2_PassesOtherChecks =>
    /\ now = challenge[1].timeBounds[1].maxTime => call.out.ok
    /\ now = challenge[1].timeBounds[1].maxTime + 1 =>
         ~call.out.ok /\ call.out.err = ErrExpired

C2_Witness ==
  /\ C2_PassesOtherChecks
  /\ now = challenge[1].timeBounds[1].maxTime + 1
  /\ call.out.err = ErrExpired

(***************************************************************************)
(* Signatures on a challenge: transactions that tests and clients sign by  *)
(* hand.  The state is a well-formed challenge at a time inside its time   *)
(* bounds; signatures are added one by one and the signer functions are    *)
(* called on the result.                                                   *)
(***************************************************************************)
UnsignedChallenge ==
  [ChallengeEnvelope(ServerKey, "GA2", "SDF", <<2>>, 0, 0) EXCEPT !.signatures = <<>>]

\* a signature by GA2's key over another message, under GA2's hint
ForeignSignature == [hint |-> SignatureHint("GA2"), key |-> "GA2", overTxHash |-> FALSE]

Signatures == {DecoratedSignature(k) : k \in PublicKeys} \cup {ForeignSignature}
SignerStrings == {ServerKey, "GA2", "GB3", PreauthTxHash, HashX, SecretSeed, MalformedKey}

SmallSignatures == {DecoratedSignature(k) : k \in {ServerKey, "GA2", "GB3"}}
SmallSignerStrings == {"GA2", "GB3", PreauthTxHash}
Weights == {<<>>, <<0>>, <<1>>, <<2>>}
Thresholds == {1, 3}
SignerSummaryEntries == [key : SmallSignerStrings, weight : Weights]

InitSigned ==
  /\ now = 1
  /\ challenge = <<UnsignedChallenge>>
  /\ built = <<>>
  /\ call = NoCall

\* transaction.sign(...) / addSignature(...) with one of the signatures of sigs
AddSignature(sigs) ==
  /\ Len(challenge[1].signatures) < MaxSigs
  /\ \E sig \in sigs :
       challenge' = <<[challenge[1] EXCEPT !.signatures = Append(@, sig)]>>
  /\ call' = NoCall
  /\ UNCHANGED <<now, built>>

CallGatherTxSigners(strings) ==
  /\ call = NoCall
  /\ \E signers \in SeqsUpTo(strings, MaxSigners) :
       LET c == GatherTxSignersCall(challenge[1], signers) IN
         /\ call' = [fn |-> "gatherTxSigners",
                     transaction |-> challenge[1],
                     signers |-> signers,
                     out |-> c.out,
                     matches |-> c.matches]
         /\ challenge' = <<[challenge[1] EXCEPT !.signatures = c.signatures]>>
  /\ UNCHANGED <<now, built>>

CallVerifyTxSignedBy(strings) ==
  /\ call = NoCall
  /\ \E accountID \in strings :
       LET c == VerifyTxSignedByCall(challenge[1], accountID) IN
         /\ call' = [fn |-> "verifyTxSignedBy",
                     transaction |-> challenge[1],
                     accountID |-> accountID,
                     out |-> c.out]
         /\ challenge' = <<[challenge[1] EXCEPT !.signatures = c.signatures]>>
  /\ UNCHANGED <<now, built>>

CallVerifyChallengeTxSigners(strings) ==
  /\ call = NoCall
  /\ \E signers \in SeqsUpTo(strings, MaxSigners) :
       LET c == VerifyChallengeTxSignersCall(challenge[1], ServerKey, signers,
                                             HdString("SDF"), now) IN
         /\ call' = [fn |-> "verifyChallengeTxSigners",
                     transaction |-> challenge[1],
                     serverAccountID |-> ServerKey,
                     signers |-> signers,
                     homeDomains |-> HdString("SDF"),
                     out |-> c.out]
         /\ challenge' = <<[challenge[1] EXCEPT !.signatures = c.signatures]>>
  /\ UNCHANGED <<now, built>>

CallVerifyChallengeTxThreshold ==
  /\ call = NoCall
  /\ \E signerSummary \in SeqsUpTo(SignerSummaryEntries, MaxSigners),
        threshold \in Thresholds :
       LET c == VerifyChallengeTxThresholdCall(challenge[1], ServerKey, threshold,
                                               signerSummary, HdString("SDF"), now) IN
         /\ call' = [fn |-> "verifyChallengeTxThreshold",
                     transaction |-> challenge[1],
                     serverAccountID |-> ServerKey,
                     threshold |-> threshold,
                     signerSummary |-> signerSummary,
                     homeDomains |-> HdString("SDF"),
                     out |-> c.out]
         /\ challenge' = <<[challenge[1] EXCEPT !.signatures = c.signatures]>>
  /\ UNCHANGED <<now, built>>

NextSigners ==
  \/ AddSignature(Signatures)
  \/ CallGatherTxSigners(SignerStrings)
  \/ CallVerifyTxSignedBy(SignerStrings)
  \/ CallVerifyChallengeTxSigners(SignerStrings)

SpecSigners == InitSigned /\ [][NextSigners]_vars

NextThreshold ==
  \/ AddSignature(SmallSignatures)
  \/ CallGatherTxSigners(SignerStrings)
  \/ CallVerifyTxSignedBy(SignerStrings)
  \/ CallVerifyChallengeTxSigners(SignerStrings)
  \/ CallVerifyChallengeTxThreshold

SpecThreshold == InitSigned /\ [][NextThreshold]_vars

(***************************************************************************)
(* What the claims about signatures speak of, stated from the transaction  *)
(* and the arguments alone.                                                *)
(***************************************************************************)
\* the transaction carries a signature by pk: pk's hint, verifying under pk
HasValidSignature(transaction, pk) ==
  \E i \in 1..Len(transaction.signatures) :
    /\ transaction.signatures[i].hint = SignatureHint(pk)
    /\ transaction.signatures[i].key = pk
    /\ transaction.signatures[i].overTxHash

\* the client candidates of a verifyChallengeTxSigners call
ListedCandidates(signers, serverAccountID) ==
  {a \in Range(signers) : StartsWith(a, "G")} \ {serverAccountID}

Occurrences(seq, x) == Cardinality({i \in 1..Len(seq) : seq[i] = x})

IsCallTo(fn) == call.fn = fn

(***************************************************************************)
(* C3: verifyChallengeTxSigners rejects a challenge that carries more      *)
(* signatures than can be matched one each to the server and to the        *)
(* distinct listed, well-formed candidates; when the server and at least   *)
(* one candidate did match, the error is 'Transaction has unrecognized     *)
(* signatures'.                                                            *)
(***************************************************************************)
C3_Explained ==
  {k \in ListedCandidates(call.signers, call.serverAccountID) \cup {call.serverAccountID} :
     HasValidSignature(challenge[1], k)}

C3_Unexplained ==
  /\ IsCallTo("verifyChallengeTxSigners")
  /\ ListedCandidates(call.signers, call.serverAccountID) \subseteq PublicKeys
  /\ Len(challenge[1].signatures) > Cardinality(C3_Explained)

C3_UnrecognizedRejected ==
  C3_Unexplained =>
    /\ ~call.out.ok
    /\ (/\ call.serverAccountID \in C3_Explained
        /\ C3_Explained \ {call.serverAccountID} # {})
         => call.out.err = ErrUnrecognized

\* server and the one listed candidate matched; the same key signed twice
C3_Witness ==
  /\ C3_Unexplained
  /\ call.signers = <<"GA2">>
  /\ C3_Explained = {ServerKey, "GA2"}
  /\ Occurrences(challenge[1].signatures, DecoratedSignature("GA2")) = 2
  /\ call.out.err = ErrUnrecognized

(***************************************************************************)
(* C4: the list returned by a successful verifyChallengeTxSigners is       *)
(* non-empty, has no duplicates, omits the server, holds only G...         *)
(* addresses of the supplied list that have a valid signature on the       *)
(* transaction, and is one shorter than the transaction's signature list.  *)
(***************************************************************************)
C4_Postcondition ==
  (IsCallTo("verifyChallengeTxSigners") /\ call.out.ok) =>
    LET L == call.out.signers IN
      /\ Len(L) >= 1
      /\ Cardinality(Range(L)) = Len(L)
      /\ call.serverAccountID \notin Range(L)
      /\ \A a \in Range(L) :
           /\ StartsWith(a, "G")
           /\ a \in Range(call.signers)
           /\ HasValidSignature(challenge[1], a)
      /\ Len(L) = Len(challenge[1].signatures) - 1

C4_Witness ==
  /\ IsCallTo("verifyChallengeTxSigners")
  /\ call.out.ok
  /\ Len(call.out.signers) = 2
  /\ Len(call.signers) = 2

(***************************************************************************)
(* C5: whenever verifyChallengeTxSigners succeeds with list L,             *)
(* verifyChallengeTxThreshold returns L if the weights that signerSummary  *)
(* gives the addresses of L sum to at least threshold, and fails with the  *)
(* weight/threshold error otherwise; nothing outside L adds to the sum.    *)
(***************************************************************************)
\* the weight signerSummary gives address a: that of the first entry with key
\* a, 0 when there is none or it has no weight
C5_WeightOf(signerSummary, a) ==
  LET firsts == {i \in 1..Len(signerSummary) :
                   /\ signerSummary[i].key = a
                   /\ \A j \in 1..(i - 1) : signerSummary[j].key # a}
  IN IF firsts = {} THEN 0
     ELSE LET e == signerSummary[CHOOSE i \in firsts : TRUE]
          IN IF e.weight = <<>> THEN 0 ELSE e.weight[1]

C5_Sum(signerSummary, L) ==
  Cardinality(UNION {{<<a, n>> : n \in 1..C5_WeightOf(signerSummary, a)} : a \in Range(L)})

C5_ThresholdDecision ==
  IsCallTo("verifyChallengeTxThreshold") =>
    LET found == VerifyChallengeTxSigners(challenge[1], call.serverAccountID,
                                          SummaryKeys(call.signerSummary),
                                          call.homeDomains, now)
        sum == C5_Sum(call.signerSummary, found.signers)
    IN found.ok =>
         IF sum >= call.threshold
           THEN call.out.ok /\ call.out.signers = found.signers
           ELSE /\ ~call.out.ok
                /\ call.out.err = ErrThreshold
                /\ call.out.detail = <<sum, call.threshold>>

\* threshold 3, signers {GA2: 1, GB3: 2}, signed by the server and both
C5_Witness ==
  /\ IsCallTo("verifyChallengeTxThreshold")
  /\ call.threshold = 3
  /\ call.signerSummary = <<[key |-> "GA2", weight |-> <<1>>], [key |-> "GB3", weight |-> <<2>>]>>
  /\ call.out.ok
  /\ call.out.signers = <<"GA2", "GB3">>

(***************************************************************************)
(* C6: verifyChallengeTxSigners and verifyChallengeTxThreshold give the    *)
(* result they give with every candidate that does not start with 'G'      *)
(* left out, while gatherTxSigners given such a string on a signed         *)
(* transaction fails with 'Signer is not a valid address'.                 *)
(***************************************************************************)
C6_StartsWithG(a) == StartsWith(a, "G")

C6_KeyStartsWithG(e) == StartsWith(e.key, "G")

C6_Asymmetry ==
  /\ IsCallTo("verifyChallengeTxSigners") =>
       call.out = VerifyChallengeTxSigners(challenge[1], call.serverAccountID,
                                           SelectSeq(call.signers, C6_StartsWithG),
                                           call.homeDomains, now)
  /\ IsCallTo("verifyChallengeTxThreshold") =>
       call.out = VerifyChallengeTxThreshold(challenge[1], call.serverAccountID,
                                             call.threshold,
                                             SelectSeq(call.signerSummary, C6_KeyStartsWithG),
                                             call.homeDomains, now)
  /\ (/\ IsCallTo("gatherTxSigners")
      /\ challenge[1].signatures # <<>>
      /\ call.signers # <<>>
      /\ ~StartsWith(Head(call.signers), "G"))
       => ~call.out.ok /\ call.out.err = ErrInvalidSigner

C6_Witness ==
  /\ IsCallTo("verifyChallengeTxSigners")
  /\ call.signers = <<PreauthTxHash, "GA2">>
  /\ call.out.ok
  /\ call.out.signers = <<"GA2">>

(***************************************************************************)
(* C7 as stated: gatherTxSigners fails with the invalid-address error      *)
(* whenever any candidate, at any position, is not a well-formed G...      *)
(* public key.                                                             *)
(***************************************************************************)
C7_Malformed(signers) == {i \in 1..Len(signers) : signers[i] \notin PublicKeys}

C7_Original ==
  (IsCallTo("gatherTxSigners") /\ C7_Malformed(call.signers) # {}) =>
    ~call.out.ok /\ call.out.err = ErrInvalidSigner

(***************************************************************************)
(* C7 amended: gatherTxSigners fails, with the invalid-address error and   *)
(* no partial result, exactly when the first malformed candidate is        *)
(* reached while a signature is still unconsumed; once the candidates      *)
(* before it have consumed every signature (none, for an unsigned          *)
(* transaction) the remaining candidates are not examined.                 *)
(***************************************************************************)
\* the signatures of the transaction that are signatures by pk
C7_SignaturesBy(transaction, pk) ==
  {i \in 1..Len(transaction.signatures) :
     /\ transaction.signatures[i].hint = SignatureHint(pk)
     /\ transaction.signatures[i].key = pk
     /\ transaction.signatures[i].overTxHash}

\* how many signatures a list of well-formed candidates consumes: each entry
\* one signature by its key, as long as one is left
C7_Consumed(transaction, candidates) ==
  Cardinality(UNION {{<<pk, n>> : n \in 1..Occurrences(candidates, pk)}
                        \cap {<<pk, n>> : n \in 1..Cardinality(C7_SignaturesBy(transaction, pk))}
                     : pk \in Range(candidates)})

C7_FailsAtFirstMalformed ==
  LET bad == C7_Malformed(call.signers)
      first == CHOOSE i \in bad : \A j \in bad : i <= j
  IN /\ bad # {}
     /\ C7_Consumed(challenge[1], SubSeq(call.signers, 1, first - 1))
          < Len(challenge[1].signatures)

C7_HardStopWhileSignaturesRemain ==
  IsCallTo("gatherTxSigners") =>
    /\ ~call.out.ok <=> C7_FailsAtFirstMalformed
    /\ ~call.out.ok => call.out.err = ErrInvalidSigner /\ call.out.signers = <<>>

\* the malformed candidate comes after the only signature was consumed
C7_Witness ==
  /\ IsCallTo("gatherTxSigners")
  /\ call.signers = <<"GA2", MalformedKey>>
  /\ challenge[1].signatures = <<DecoratedSignature("GA2")>>
  /\ call.out.ok
  /\ call.out.signers = <<"GA2">>

(***************************************************************************)
(* C8: on a transaction without signatures gatherTxSigners returns the     *)
(* empty list, without error, for every non-empty candidate list, and      *)
(* verifyTxSignedBy returns false.                                         *)
(***************************************************************************)
C8_Unsigned ==
  /\ (/\ IsCallTo("gatherTxSigners")
      /\ challenge[1].signatures = <<>>
      /\ call.signers # <<>>)
       => call.out.ok /\ call.out.signers = <<>>
  /\ (IsCallTo("verifyTxSignedBy") /\ challenge[1].signatures = <<>>)
       => call.out.ok /\ call.out.value = FALSE

C8_Witness ==
  /\ IsCallTo("gatherTxSigners")
  /\ challenge[1].signatures = <<>>
  /\ call.signers = <<"GA2", "GB3">>
  /\ call.out.ok
  /\ call.out.signers = <<>>

(***************************************************************************)
(* C10: without a valid signature by the server account neither            *)
(* verifyChallengeTxSigners nor verifyChallengeTxThreshold succeeds; when  *)
(* the candidate set is non-empty (and well-formed) the error is           *)
(* "Transaction not signed by server: '<serverAccountID>'", whether or     *)
(* not clients signed.                                                     *)
(***************************************************************************)
C10_Candidates ==
  ListedCandidates(IF IsCallTo("verifyChallengeTxThreshold")
                     THEN SummaryKeys(call.signerSummary)
                     ELSE call.signers,
                   call.serverAccountID)

C10_NoServerSignature ==
  /\ IsCallTo("verifyChallengeTxSigners") \/ IsCallTo("verifyChallengeTxThreshold")
  /\ ~HasValidSignature(challenge[1], call.serverAccountID)

C10_ServerSignatureRequired ==
  C10_NoServerSignature =>
    /\ ~call.out.ok
    /\ (C10_Candidates # {} /\ C10_Candidates \subseteq PublicKeys)
         => call.out.err = ErrNotSignedByServer(call.serverAccountID)

\* a client signature is present, the server's is not
C10_Witness ==
  /\ C10_NoServerSignature
  /\ IsCallTo("verifyChallengeTxThreshold")
  /\ HasValidSignature(challenge[1], "GA2")
  /\ "GA2" \in C10_Candidates
  /\ call.out.err = "Transaction not signed by server: 'GS1'"

(***************************************************************************)
(* Reading hand-made challenges: the envelope, the clock and the arguments *)
(* are drawn from the shapes that the checks of readChallengeTx tell       *)
(* apart.                                                                  *)
(***************************************************************************)
FirstOperations ==
  [type : {"manageData", "payment"}, source : {"", "GA2", MuxedAccount},
   name : {"SDF auth", "Other auth"}, value : {[nonce |-> 0, length |-> 64, padding |-> 0]}]

LaterOperations ==
  [type : {"manageData", "payment"}, source : {ServerKey, "GA2"},
   name : {"extra"}, value : {[nonce |-> 0, length |-> 64, padding |-> 0]}]

OperationLists ==
  {<<>>} \cup {<<first>> \o later : first \in FirstOperations,
                                    later \in SeqsUpTo(LaterOperations, MaxOps - 1)}

TimeBoundsShapes ==
  {<<>>, <<[minTime |-> 0, maxTime |-> 0]>>, <<[minTime |-> 1, maxTime |-> 2]>>}

\* unsigned, signed by the server, signed by somebody else
CraftedSignatures ==
  {<<>>, <<DecoratedSignature(ServerKey)>>, <<DecoratedSignature("GA2")>>}

CraftedTransactions ==
  [envelope : {"tx"}, sequence : {0, 1}, source : {ServerKey, "GA2"},
   timeBounds : TimeBoundsShapes, operations : OperationLists,
   signatures : CraftedSignatures]

\* a fee-bump envelope and a string that is no envelope: nothing else of
\* them is looked at
OtherEnvelopes ==
  {[UnsignedChallenge EXCEPT !.envelope = e] : e \in {"feeBump", "undecodable"}}

InitCrafted ==
  /\ now \in 0..MaxNow
  /\ challenge \in {<<c>> : c \in CraftedTransactions \cup OtherEnvelopes}
  /\ built = <<>>
  /\ call = NoCall

ReadCrafted ==
  /\ call = NoCall
  /\ \E serverAccountID \in {ServerKey, MuxedServer},
        homeDomains \in HomeDomainArgs :
       call' = [fn |-> "readChallengeTx",
                serverAccountID |-> serverAccountID,
                homeDomains |-> homeDomains,
                out |-> ReadChallengeTx(challenge[1], serverAccountID, homeDomains, now)]
  /\ UNCHANGED <<now, challenge, built>>

NextRead == ReadCrafted

SpecRead == InitCrafted /\ [][NextRead]_vars

(***************************************************************************)
(* Challenges with auxiliary operations: a well-formed first operation     *)
(* followed by up to MaxOps more, read inside the time bounds.             *)
(***************************************************************************)
AuxiliaryTransactions ==
  {[UnsignedChallenge EXCEPT !.operations = @ \o later,
                             !.signatures = <<DecoratedSignature(ServerKey)>>] :
     later \in SeqsUpTo(LaterOperations, MaxOps)}

InitAuxiliary ==
  /\ now \in 0..MaxNow
  /\ challenge \in {<<c>> : c \in AuxiliaryTransactions}
  /\ built = <<>>
  /\ call = NoCall

NextAuxiliary == ReadCrafted

SpecAuxiliary == InitAuxiliary /\ [][NextAuxiliary]_vars

(***************************************************************************)
(* A challenge over time: it is signed step by step while the clock moves  *)
(* past its time bounds, and it is read and verified along the way, with   *)
(* the home domain it was built for and with another one.                  *)
(***************************************************************************)
VerifyStrings == {"GA2", "GB3", PreauthTxHash, MalformedKey}
VerifyHomeDomains == {HdString("SDF"), HdString("Test")}
VerifySummaryEntries == [key : {"GA2", "GB3"}, weight : {<<1>>}]

InitVerify ==
  /\ now \in 0..1
  /\ challenge = <<UnsignedChallenge>>
  /\ built = <<>>
  /\ call = NoCall

CallVerifyChallengeTxSignersAt(strings, domains) ==
  /\ call = NoCall
  /\ \E signers \in SeqsUpTo(strings, MaxSigners), homeDomains \in domains :
       LET c == VerifyChallengeTxSignersCall(challenge[1], ServerKey, signers,
                                             homeDomains, now) IN
         /\ call' = [fn |-> "verifyChallengeTxSigners",
                     transaction |-> challenge[1],
                     serverAccountID |-> ServerKey,
                     signers |-> signers,
                     homeDomains |-> homeDomains,
                     out |-> c.out]
         /\ challenge' = <<[challenge[1] EXCEPT !.signatures = c.signatures]>>
  /\ UNCHANGED <<now, built>>

CallVerifyChallengeTxThresholdAt(entries, domains) ==
  /\ call = NoCall
  /\ \E signerSummary \in SeqsUpTo(entries, MaxSigners),
        threshold \in Thresholds, homeDomains \in domains :
       LET c == VerifyChallengeTxThresholdCall(challenge[1], ServerKey, threshold,
                                               signerSummary, homeDomains, now) IN
         /\ call' = [fn |-> "verifyChallengeTxThreshold",
                     transaction |-> challenge[1],
                     serverAccountID |-> ServerKey,
                     threshold |-> threshold,
                     signerSummary |-> signerSummary,
                     homeDomains |-> homeDomains,
                     out |-> c.out]
         /\ challenge' = <<[challenge[1] EXCEPT !.signatures = c.signatures]>>
  /\ UNCHANGED <<now, built>>

NextVerify ==
  \/ AddSignature(SmallSignatures)
  \/ Tick
  \/ ReadCrafted
  \/ CallVerifyChallengeTxSignersAt(VerifyStrings, VerifyHomeDomains)
  \/ CallVerifyChallengeTxThresholdAt(VerifySummaryEntries, VerifyHomeDomains)

SpecVerify == InitVerify /\ [][NextVerify]_vars

(***************************************************************************)
(* C9: readChallengeTx on a decodable envelope reports the error of the    *)
(* earliest violated check in the order (1) multiplexed serverAccountID,   *)
(* (2) fee-bump envelope, (3) sequence number not 0, (4) source not the    *)
(* server, (5) no operations, (6) first operation without source, (7)      *)
(* first operation not manage-data, (8) infinite max time, (9) clock       *)
(* outside the time bounds, (10) homeDomains missing (undefined or the     *)
(* empty string) or of a wrong type,                                       *)
(* (11) key name matching no home domain, (12) a later operation not       *)
(* manage-data or not sourced by the server; it succeeds when none is      *)
(* violated.                                                               *)
(***************************************************************************)
C9_Domains(homeDomains) ==
  IF homeDomains.type = "string" THEN {homeDomains.str}
  ELSE IF homeDomains.type = "array" THEN Range(homeDomains.arr)
  ELSE {}

\* the later operations that check 12 objects to, by position
C9_Offending(tx, serverAccountID) ==
  {i \in 2..Len(tx.operations) :
     tx.operations[i].type # "manageData" \/ tx.operations[i].source # serverAccountID}

\* check n is violated; checks that read a part of the transaction that does
\* not exist count as not violated
C9_Violated(n, tx, serverAccountID, homeDomains, t) ==
  CASE n = 1 -> StartsWith(serverAccountID, "M")
    [] n = 2 -> tx.envelope = "feeBump"
    [] n = 3 -> tx.sequence # 0
    [] n = 4 -> tx.source # serverAccountID
    [] n = 5 -> tx.operations = <<>>
    [] n = 6 -> tx.operations # <<>> /\ tx.operations[1].source = ""
    [] n = 7 -> tx.operations # <<>> /\ tx.operations[1].type # "manageData"
    [] n = 8 -> tx.timeBounds # <<>> /\ tx.timeBounds[1].maxTime = TimeoutInfinite
    [] n = 9 -> \/ tx.timeBounds = <<>>
                \/ t < tx.timeBounds[1].minTime
                \/ t > tx.timeBounds[1].maxTime
    [] n = 10 -> \/ homeDomains.type \notin {"string", "array"}
                 \/ homeDomains = HdString("")
    [] n = 11 -> /\ tx.operations # <<>>
                 /\ ~\E d \in C9_Domains(homeDomains) : (d \o " auth") = tx.operations[1].name
    [] n = 12 -> C9_Offending(tx, serverAccountID) # {}

C9_Error(n, tx, serverAccountID, homeDomains) ==
  CASE n = 1 -> ErrMuxedServer
    [] n = 2 -> ErrFeeBump
    [] n = 3 -> ErrSequence
    [] n = 4 -> ErrSource
    [] n = 5 -> ErrNoOperation
    [] n = 6 -> ErrOpSource
    [] n = 7 -> ErrOpType
    [] n = 8 -> ErrInfinite
    [] n = 9 -> ErrExpired
    [] n = 10 -> IF homeDomains.type = "number" THEN ErrHomeDomainsType("number")
                 ELSE ErrNoHomeDomains
    [] n = 11 -> ErrHomeDomainMismatch
    [] n = 12 -> LET off == C9_Offending(tx, serverAccountID)
                     i == CHOOSE i \in off : \A j \in off : i <= j
                 IN IF tx.operations[i].type # "manageData" THEN ErrLaterOpType
                    ELSE ErrLaterOpSource

C9_ViolatedChecks ==
  {n \in 1..12 : C9_Violated(n, challenge[1], call.serverAccountID, call.homeDomains, now)}

C9_FirstViolationWins ==
  (IsCallTo("readChallengeTx") /\ challenge[1].envelope # "undecodable") =>
    IF C9_ViolatedChecks = {} THEN call.out.ok
    ELSE LET n == CHOOSE n \in C9_ViolatedChecks : \A m \in C9_ViolatedChecks : n <= m
         IN /\ ~call.out.ok
            /\ call.out.err = C9_Error(n, challenge[1], call.serverAccountID, call.homeDomains)

\* sequence number, source, time bounds and home domain are all wrong: the
\* sequence number is reported
C9_Witness ==
  /\ IsCallTo("readChallengeTx")
  /\ challenge[1].envelope = "tx"
  /\ {3, 4, 8, 11} \subseteq C9_ViolatedChecks
  /\ 1 \notin C9_ViolatedChecks
  /\ call.out.err = ErrSequence


(***************************************************************************)
(* C11: a challenge signed by the server alone, once or several times, is  *)
(* never verified by verifyChallengeTxSigners: with a non-empty,           *)
(* well-formed set of client candidates the error is 'None of the given    *)
(* signers match the transaction signatures', also when the server's       *)
(* address is among the supplied signers.                                  *)
(***************************************************************************)
C11_OnlyServerSigned ==
  /\ IsCallTo("verifyChallengeTxSigners")
  /\ challenge[1].signatures # <<>>
  /\ Range(challenge[1].signatures) = {DecoratedSignature(call.serverAccountID)}

C11_ServerNeverAuthenticates ==
  C11_OnlyServerSigned =>
    /\ ~call.out.ok
    /\ (/\ ListedCandidates(call.signers, call.serverAccountID) # {}
        /\ ListedCandidates(call.signers, call.serverAccountID) \subseteq PublicKeys)
         => call.out.err = ErrNoneMatch

\* the server signed twice and is listed beside a client
C11_Witness ==
  /\ C11_OnlyServerSigned
  /\ Len(challenge[1].signatures) = 2
  /\ call.signers = <<ServerKey, "GA2">>
  /\ call.out.err = ErrNoneMatch


(***************************************************************************)
(* C12: on a challenge that passes readChallengeTx, when no client         *)
(* candidate is left after dropping the server address and every string    *)
(* that does not start with G (an empty list included),                    *)
(* verifyChallengeTxSigners, and verifyChallengeTxThreshold called with    *)
(* such a signerSummary, fail with 'No verifiable client signers           *)
(* provided, at least one G... address must be provided', whatever         *)
(* signatures the transaction carries.                                     *)
(***************************************************************************)
C12_Supplied ==
  IF IsCallTo("verifyChallengeTxSigners") THEN call.signers
  ELSE [i \in 1..Len(call.signerSummary) |-> call.signerSummary[i].key]

C12_NoCandidates ==
  /\ IsCallTo("verifyChallengeTxSigners") \/ IsCallTo("verifyChallengeTxThreshold")
  /\ ReadChallengeTx(challenge[1], call.serverAccountID, call.homeDomains, now).ok
  /\ ListedCandidates(C12_Supplied, call.serverAccountID) = {}

C12_NoVerifiableSigners ==
  C12_NoCandidates => ~call.out.ok /\ call.out.err = ErrNoClientSigners

\* a summary of one pre-authorized hash, on a challenge the server and the
\* client both signed
C12_Witness ==
  /\ C12_NoCandidates
  /\ IsCallTo("verifyChallengeTxThreshold")
  /\ Len(call.signerSummary) = 1
  /\ challenge[1].signatures = <<DecoratedSignature(ServerKey), DecoratedSignature("GA2")>>
  /\ call.out.err = ErrNoClientSigners


(***************************************************************************)
(* C13: one signature, one match.  In a call of gatherTxSigners every      *)
(* match pairs an entry of the candidate list with a signature of the      *)
(* transaction made by that entry's key; no signature and no entry takes   *)
(* part in two matches; the result holds the matched addresses, each       *)
(* once, and is never longer than the list of signatures.                  *)
(***************************************************************************)
C13_Genuine(m) ==
  /\ m.signer \in 1..Len(call.signers)
  /\ m.signature \in 1..Len(call.transaction.signatures)
  /\ KeypairVerify(call.signers[m.signer], call.transaction.signatures[m.signature])

C13_OneSignatureOneMatch ==
  IsCallTo("gatherTxSigners") =>
    LET m == call.matches IN
      /\ \A a \in 1..Len(m) : C13_Genuine(m[a])
      /\ \A a, b \in 1..Len(m) :
           a # b => m[a].signature # m[b].signature /\ m[a].signer # m[b].signer
      /\ call.out.ok =>
           /\ Range(call.out.signers) = {call.signers[m[a].signer] : a \in 1..Len(m)}
           /\ \A x \in Range(call.out.signers) : Occurrences(call.out.signers, x) = 1
           /\ Len(call.out.signers) <= Len(call.transaction.signatures)

\* an address listed twice on a transaction its key signed three times: two
\* signatures are consumed, one is left over, and the address is returned once
C13_Witness ==
  /\ IsCallTo("gatherTxSigners")
  /\ call.signers = <<"GA2", "GA2">>
  /\ Occurrences(call.transaction.signatures, DecoratedSignature("GA2")) = 3
  /\ Len(call.matches) = 2
  /\ call.out.signers = <<"GA2">>

(***************************************************************************)
(* C14: when every candidate is a well-formed address, gatherTxSigners     *)
(* returns exactly the candidates for which the transaction carries a      *)
(* signature with the candidate's hint that verifies under the candidate's *)
(* key; a signature with the right hint that does not verify is never      *)
(* consumed, and a candidate without a verifying signature is left out.    *)
(***************************************************************************)
C14_WellFormed ==
  /\ IsCallTo("gatherTxSigners")
  /\ Range(call.signers) \subseteq PublicKeys

C14_Reference ==
  {c \in Range(call.signers) : HasValidSignature(call.transaction, c)}

C14_Consumed == {call.matches[a].signature : a \in 1..Len(call.matches)}

C14_ExactlyTheSigners ==
  C14_WellFormed =>
    /\ call.out.ok
    /\ Range(call.out.signers) = C14_Reference
    /\ \A i \in C14_Consumed : call.transaction.signatures[i].overTxHash

\* the candidate's hint first on a signature over another message, then on
\* its signature of this transaction: the first is passed over, the second
\* is consumed; the other candidate has no signature and is left out
C14_Witness ==
  /\ C14_WellFormed
  /\ call.signers = <<"GB3", "GA2">>
  /\ call.transaction.signatures = <<ForeignSignature, DecoratedSignature("GA2")>>
  /\ call.out.signers = <<"GA2">>
  /\ C14_Consumed = {2}

(***************************************************************************)
(* C15: a call of gatherTxSigners, verifyTxSignedBy,                       *)
(* verifyChallengeTxSigners or verifyChallengeTxThreshold leaves the       *)
(* transaction with the signatures it was passed, in the same order,       *)
(* whether the call returns or throws.                                     *)
(***************************************************************************)
C15_SignerCall ==
  \/ IsCallTo("gatherTxSigners")
  \/ IsCallTo("verifyTxSignedBy")
  \/ IsCallTo("verifyChallengeTxSigners")
  \/ IsCallTo("verifyChallengeTxThreshold")

C15_SignaturesUnchanged ==
  C15_SignerCall => challenge[1].signatures = call.transaction.signatures

\* a successful verification that matched the server and the client
C15_Witness ==
  /\ IsCallTo("verifyChallengeTxSigners")
  /\ call.out.ok
  /\ call.out.signers = <<"GA2">>
  /\ challenge[1].signatures = <<DecoratedSignature(ServerKey), DecoratedSignature("GA2")>>


(***************************************************************************)
(* C16: readChallengeTx never looks at signatures.  Whatever a call of     *)
(* readChallengeTx returned or threw, the same call on a challenge that    *)
(* differs in its signature list only -- no signature, the server's, a     *)
(* client's, one that verifies under no key -- gives the same outcome.     *)
(***************************************************************************)
C16_SignatureLists ==
  {<<>>, <<DecoratedSignature(ServerKey)>>, <<DecoratedSignature("GA2")>>,
   <<ForeignSignature, DecoratedSignature("GB3")>>}

C17_SignedByServer ==
  (IsCallTo("readChallengeTx") /\ call.out.ok) =>
    HasValidSignature(challenge[1], call.serverAccountID)

(***************************************************************************)
(* C18: readChallengeTx called with a multiplexed serverAccountID fails    *)
(* with 'Invalid serverAccountID: multiplexed accounts are not supported.' *)
(* for every challenge, one that is not a decodable envelope included.     *)
(***************************************************************************)
C18_MuxedServer ==
  /\ IsCallTo("readChallengeTx")
  /\ StartsWith(call.serverAccountID, "M")

C18_MuxedServerRejectedFirst ==
  C18_MuxedServer => ~call.out.ok /\ call.out.err = ErrMuxedServer

C18_Witness ==
  /\ C18_MuxedServer
  /\ challenge[1].envelope = "undecodable"
  /\ call.out.err = ErrMuxedServer


(***************************************************************************)
(* C19: buildChallengeTx called with a multiplexed clientAccountID fails   *)
(* with 'Invalid clientAccountID: multiplexed accounts are not supported.' *)
(* before doing anything else: the clock is not read, no random bytes are  *)
(* drawn, and no transaction is built or signed.                           *)
(***************************************************************************)
C19_MuxedClient ==
  /\ IsCallTo("buildChallengeTx")
  /\ StartsWith(call.clientAccountID, "M")

C19_MuxedClientRejectedFirst ==
  C19_MuxedClient =>
    /\ ~call.out.ok
    /\ call.out.err = ErrMuxedClient
    /\ call.out.effects = <<>>
    /\ call.out.challenge = <<>>
    /\ challenge = <<>>
    /\ built = <<>>

C19_Witness ==
  /\ C19_MuxedClient
  /\ call.clientAccountID = MuxedAccount
  /\ call.out.err = ErrMuxedClient
  /\ call.out.effects = <<>>

(***************************************************************************)
(* C20: the shape of a built challenge.  The envelope buildChallengeTx     *)
(* returns is a transaction with the server's public key as source,        *)
(* sequence number 0, time bounds from the clock to the clock plus the     *)
(* timeout (300 when the timeout is omitted), exactly one operation -- a   *)
(* manage-data operation with the client as source, the key                *)
(* '<homeDomain> auth' and a base64 value of 64 characters that decodes to *)
(* 48 bytes -- and exactly one signature, the server key's.                *)
(***************************************************************************)
C20_Built ==
  /\ IsCallTo("buildChallengeTx")
  /\ call.out.ok

C20_Timeout == IF built[1].timeout = <<>> THEN 300 ELSE built[1].timeout[1]

C20_Shape ==
  C20_Built =>
    LET tx == call.out.challenge[1]
        op == tx.operations[1]
    IN /\ challenge = call.out.challenge
       /\ tx.envelope = "tx"
       /\ tx.source = built[1].serverKeypair
       /\ tx.sequence = 0
       /\ tx.timeBounds = <<[minTime |-> now, maxTime |-> now + C20_Timeout]>>
       /\ Len(tx.operations) = 1
       /\ op.type = "manageData"
       /\ op.source = built[1].clientAccountID
       /\ op.name = built[1].homeDomain \o " auth"
       /\ op.value.length = 64
       /\ Base64DecodedLength(op.value.length, op.value.padding) = 48
       /\ Len(tx.signatures) = 1
       /\ tx.signatures[1].hint = SignatureHint(built[1].serverKeypair)
       /\ KeypairVerify(built[1].serverKeypair, tx.signatures[1])

\* a challenge built with an explicit timeout, after the clock has moved
C20_Witness ==
  /\ C20_Built
  /\ built[1].timeout = <<2>>
  /\ built[1].homeDomain = "Test"
  /\ now = 1
  /\ challenge[1].timeBounds = <<[minTime |-> 1, maxTime |-> 3]>>
  /\ challenge[1].operations[1].name = "Test auth"


(***************************************************************************)
(* C21: home-domain matching, for a built challenge read with its server's *)
(* address inside its time bounds.  readChallengeTx succeeds with          *)
(* matchedHomeDomain = d exactly when the first operation's key is         *)
(* '<d> auth' for a non-empty domain d of homeDomains (the string itself,  *)
(* or the first matching element of the array); it fails with the 'does    *)
(* not match the expected home domain' error when no non-empty domain      *)
(* matches, with 'a home domain must be provided for verification' when    *)
(* homeDomains is undefined or the empty string, and with the type error   *)
(* when homeDomains is a number.                                           *)
(***************************************************************************)
C21_PassesEarlierChecks ==
  /\ IsCallTo("readChallengeTx")
  /\ call.serverAccountID = challenge[1].source
  /\ challenge[1].timeBounds[1].maxTime # 0
  /\ challenge[1].timeBounds[1].minTime <= now
  /\ now <= challenge[1].timeBounds[1].maxTime

C21_Domains ==
  IF call.homeDomains.type = "string" THEN <<call.homeDomains.str>>
  ELSE IF call.homeDomains.type = "array" THEN call.homeDomains.arr
  ELSE <<>>

C21_Matching(domains) ==
  {i \in 1..Len(domains) : (domains[i] \o " auth") = challenge[1].operations[1].name}

C21_FirstMatching(domains) ==
  domains[CHOOSE i \in C21_Matching(domains) : \A j \in C21_Matching(domains) : i <= j]

C21_Succeeds(d) ==
  /\ call.out.ok
  /\ call.out.matchedHomeDomain = d
  /\ call.out.clientAccountID = challenge[1].operations[1].source

C21_FailsWith(err) == ~call.out.ok /\ call.out.err = err

\* the claim as stated, an empty string read as 'not provided': any element
\* of an array may match, the empty one too
C21_Original ==
  C21_PassesEarlierChecks =>
    IF call.homeDomains.type = "undefined" \/ call.homeDomains = HdString("")
      THEN C21_FailsWith(ErrNoHomeDomains)
    ELSE IF call.homeDomains.type \notin {"string", "array"}
      THEN C21_FailsWith(ErrHomeDomainsType(call.homeDomains.type))
    ELSE IF C21_Matching(C21_Domains) = {} THEN C21_FailsWith(ErrHomeDomainMismatch)
    ELSE C21_Succeeds(C21_FirstMatching(C21_Domains))

C21_NonEmptyDomains == SelectSeq(C21_Domains, LAMBDA d : d # "")

C21_HomeDomainMatching ==
  C21_PassesEarlierChecks =>
    IF call.homeDomains.type = "undefined" \/ call.homeDomains = HdString("")
      THEN C21_FailsWith(ErrNoHomeDomains)
    ELSE IF call.homeDomains.type \notin {"string", "array"}
      THEN C21_FailsWith(ErrHomeDomainsType(call.homeDomains.type))
    ELSE IF C21_Matching(C21_NonEmptyDomains) = {} THEN C21_FailsWith(ErrHomeDomainMismatch)
    ELSE C21_Succeeds(C21_FirstMatching(C21_NonEmptyDomains))

\* a challenge built for the empty home domain, read with an array that
\* lists the empty domain: the key ' auth' is that of the first element,
\* and the call fails with the mismatch error
C21_Witness ==
  /\ C21_PassesEarlierChecks
  /\ challenge[1].operations[1].name = " auth"
  /\ call.homeDomains = HdArray(<<"", "SDF">>)
  /\ C21_FailsWith(ErrHomeDomainMismatch)


(***************************************************************************)
(* C22: auxiliary operations are the server's only.  On a challenge whose  *)
(* first operation passes every check, readChallengeTx succeeds exactly    *)
(* when every later operation is manage-data with source serverAccountID;  *)
(* otherwise the first later operation that is not decides the error:      *)
(* "not of type 'manageData'" when its type is another one, 'operations    *)
(* that are unrecognized' when it is manage-data from another source.      *)
(***************************************************************************)
C22_FirstOnly == [challenge[1] EXCEPT !.operations = <<Head(@)>>]

C22_FirstOperationPasses ==
  /\ IsCallTo("readChallengeTx")
  /\ challenge[1].envelope = "tx"
  /\ challenge[1].operations # <<>>
  /\ ReadChallengeTx(C22_FirstOnly, call.serverAccountID, call.homeDomains, now).ok

C22_Later == Tail(challenge[1].operations)

C22_Foreign ==
  {i \in 1..Len(C22_Later) :
     C22_Later[i].type # "manageData" \/ C22_Later[i].source # call.serverAccountID}

C22_FirstForeign == C22_Later[CHOOSE i \in C22_Foreign : \A j \in C22_Foreign : i <= j]

C22_ServerAuthoredOnly ==
  C22_FirstOperationPasses =>
    IF C22_Foreign = {} THEN call.out.ok
    ELSE /\ ~call.out.ok
         /\ call.out.err = IF C22_FirstForeign.type # "manageData"
                             THEN ErrLaterOpType ELSE ErrLaterOpSource

\* a manage-data operation of the client followed by a payment of the
\* server: the first of the two decides
C22_Witness ==
  /\ C22_FirstOperationPasses
  /\ Len(C22_Later) = 2
  /\ C22_Later[1].type = "manageData" /\ C22_Later[1].source = "GA2"
  /\ C22_Later[2].type = "payment" /\ C22_Later[2].source = ServerKey
  /\ call.out.err = ErrLaterOpSource


(***************************************************************************)
(* C23: the time window.  On a challenge that passes checks 1 to 8,        *)
(* readChallengeTx fails with 'The transaction has expired' whenever the   *)
(* clock is outside [minTime, maxTime], before minTime as well as after    *)
(* maxTime, and also when the transaction has no time bounds; inside the   *)
(* window it does not.                                                     *)
(***************************************************************************)
C23_PassesChecks1To8 ==
  /\ IsCallTo("readChallengeTx")
  /\ challenge[1].envelope = "tx"
  /\ \A n \in 1..8 :
       ~C9_Violated(n, challenge[1], call.serverAccountID, call.homeDomains, now)

C23_OutsideWindow ==
  \/ challenge[1].timeBounds = <<>>
  \/ now < challenge[1].timeBounds[1].minTime
  \/ now > challenge[1].timeBounds[1].maxTime

C23_TimeWindow ==
  C23_PassesChecks1To8 =>
    IF C23_OutsideWindow THEN ~call.out.ok /\ call.out.err = ErrExpired
    ELSE call.out.err # ErrExpired

\* a challenge read before its minTime
C23_Witness ==
  /\ C23_PassesChecks1To8
  /\ challenge[1].timeBounds # <<>>
  /\ now < challenge[1].timeBounds[1].minTime
  /\ call.out.err = ErrExpired

(***************************************************************************)
(* C24: a challenge whose maxTime is 0, the infinite sentinel, is rejected *)
(* with 'The transaction requires non-infinite timebounds' at every clock  *)
(* value, once checks 1 to 7 have passed, and never with 'expired'; no     *)
(* challenge without a finite maxTime is accepted.                         *)
(***************************************************************************)
C24_PassesChecks1To7 ==
  /\ IsCallTo("readChallengeTx")
  /\ challenge[1].envelope = "tx"
  /\ \A n \in 1..7 :
       ~C9_Violated(n, challenge[1], call.serverAccountID, call.homeDomains, now)

C24_FiniteMaxTime ==
  /\ challenge[1].timeBounds # <<>>
  /\ challenge[1].timeBounds[1].maxTime # 0

C24_InfiniteRejected ==
  /\ (C24_PassesChecks1To7 /\ challenge[1].timeBounds # <<>>
        /\ challenge[1].timeBounds[1].maxTime = 0)
       => ~call.out.ok /\ call.out.err = ErrInfinite
  /\ (IsCallTo("readChallengeTx") /\ call.out.ok) => C24_FiniteMaxTime

\* bounds [0, 0] read at time 0, which lies inside them
C24_Witness ==
  /\ C24_PassesChecks1To7
  /\ challenge[1].timeBounds = <<[minTime |-> 0, maxTime |-> 0]>>
  /\ now = 0
  /\ call.out.err = ErrInfinite

(***************************************************************************)
(* C25: readChallengeTx never succeeds returning a multiplexed             *)
(* (M-prefixed) clientAccountID: a challenge whose first operation's       *)
(* source is multiplexed is rejected.                                      *)
(***************************************************************************)
C25_NoMuxedClient ==
  (IsCallTo("readChallengeTx") /\ call.out.ok) =>
    /\ ~StartsWith(call.out.clientAccountID, "M")
    /\ ~StartsWith(challenge[1].operations[1].source, "M")

(***************************************************************************)
(* C26: verifyTxSignedBy(tx, a) is gatherTxSigners(tx, [a]) being          *)
(* non-empty: it throws when that call throws, and otherwise returns       *)
(* whether the list is non-empty; for a well-formed address a it is true   *)
(* exactly when tx carries a valid signature by a.                         *)
(***************************************************************************)
C26_Gathered == GatherTxSigners(call.transaction, <<call.accountID>>)

C26_NonEmptyGather ==
  IsCallTo("verifyTxSignedBy") =>
    /\ call.out.ok = C26_Gathered.ok
    /\ ~C26_Gathered.ok => call.out.err = C26_Gathered.err
    /\ C26_Gathered.ok => call.out.value = (C26_Gathered.signers # <<>>)
    /\ call.accountID \in PublicKeys =>
         /\ call.out.ok
         /\ call.out.value = HasValidSignature(call.transaction, call.accountID)

\* signed by the server and another client, asked about GA2
C26_Witness ==
  /\ IsCallTo("verifyTxSignedBy")
  /\ call.accountID = "GA2"
  /\ call.transaction.signatures = <<DecoratedSignature(ServerKey), DecoratedSignature("GB3")>>
  /\ call.out.ok
  /\ call.out.value = FALSE


(***************************************************************************)
(* C28: output order.  gatherTxSigners returns the found addresses in the  *)
(* order of their first occurrence in the candidate list, whatever the     *)
(* order of the signatures on the transaction, and                         *)
(* verifyChallengeTxSigners returns the client signers in the order they   *)
(* were supplied.                                                          *)
(***************************************************************************)
C28_FirstOccurrence(list, x) == CHOOSE i \in 1..Len(list) : list[i] = x /\ \A j \in 1..(i - 1) : list[j] # x

C28_InOrderOf(list, result) ==
  /\ Range(result) \subseteq Range(list)
  /\ \A i, j \in 1..Len(result) :
       i < j => C28_FirstOccurrence(list, result[i]) < C28_FirstOccurrence(list, result[j])

C28_OutputOrder ==
  ((IsCallTo("gatherTxSigners") \/ IsCallTo("verifyChallengeTxSigners")) /\ call.out.ok)
    => C28_InOrderOf(call.signers, call.out.signers)

\* the clients signed in one order and are listed in the other
C28_Witness ==
  /\ IsCallTo("verifyChallengeTxSigners")
  /\ call.transaction.signatures =
       <<DecoratedSignature(ServerKey), DecoratedSignature("GA2"), DecoratedSignature("GB3")>>
  /\ call.signers = <<"GB3", "GA2">>
  /\ call.out.ok
  /\ call.out.signers = <<"GB3", "GA2">>

(***************************************************************************)
(* C29: duplicate keys in signerSummary.  verifyChallengeTxThreshold gives *)
(* the outcome it gives for the summary reduced to the first entry of      *)
(* each key, with a missing weight written as 0: a signer is counted       *)
(* once, with the weight of the first entry carrying its key, and an       *)
(* entry without weight or with weight 0 adds 0 and raises no error of     *)
(* its own.                                                                *)
(***************************************************************************)
C29_IsFirstOfKey(signerSummary, i) ==
  \A j \in 1..(i - 1) : signerSummary[j].key # signerSummary[i].key

RECURSIVE C29_FirstEntries(_, _)
C29_FirstEntries(signerSummary, i) ==
  IF i > Len(signerSummary) THEN <<>>
  ELSE (IF C29_IsFirstOfKey(signerSummary, i)
          THEN <<[key |-> signerSummary[i].key,
                  weight |-> IF signerSummary[i].weight = <<>> THEN <<0>>
                             ELSE signerSummary[i].weight]>>
          ELSE <<>>)
       \o C29_FirstEntries(signerSummary, i + 1)

C29_FirstEntryCounts ==
  IsCallTo("verifyChallengeTxThreshold") =>
    call.out = VerifyChallengeTxThreshold(call.transaction, call.serverAccountID,
                                          call.threshold,
                                          C29_FirstEntries(call.signerSummary, 1),
                                          call.homeDomains, now)

\* the key listed first without a weight, then with weight 2: the signer
\* weighs 0 and the threshold of 1 is missed
C29_Witness ==
  /\ IsCallTo("verifyChallengeTxThreshold")
  /\ call.signerSummary = <<[key |-> "GA2", weight |-> <<>>], [key |-> "GA2", weight |-> <<2>>]>>
  /\ call.threshold = 1
  /\ call.transaction.signatures = <<DecoratedSignature(ServerKey), DecoratedSignature("GA2")>>
  /\ call.out.err = ErrThreshold
  /\ call.out.detail = <<0, 1>>


(***************************************************************************)
(* C27: error precedence in the verifiers.  verifyChallengeTxSigners       *)
(* reports the first that fails of: (1) readChallengeTx, whose error is    *)
(* passed on unchanged; (2) serverAccountID is a public key; (3) some      *)
(* client candidate is left; (4) no malformed candidate is reached while   *)
(* a signature is still unconsumed; (5) the server signed; (6) a client    *)
(* candidate signed; (7) every signature is matched.  In                   *)
(* verifyChallengeTxThreshold each of them comes before (8), the weight    *)
(* reaching the threshold.                                                 *)
(***************************************************************************)
C27_VerifierCall ==
  IsCallTo("verifyChallengeTxSigners") \/ IsCallTo("verifyChallengeTxThreshold")

C27_Supplied ==
  IF IsCallTo("verifyChallengeTxSigners") THEN call.signers
  ELSE [i \in 1..Len(call.signerSummary) |-> call.signerSummary[i].key]

C27_IsCandidate(a) == StartsWith(a, "G") /\ a # call.serverAccountID

C27_Listed == SelectSeq(C27_Supplied, C27_IsCandidate)

C27_Read ==
  ReadChallengeTx(call.transaction, call.serverAccountID, call.homeDomains, now)

C27_Signed(a) == HasValidSignature(call.transaction, a)

C27_Matched == {a \in Range(C27_Listed) : C27_Signed(a)}

\* the signatures consumed when the m-th listed candidate is reached
C27_ConsumedBefore(m) ==
  Cardinality({a \in {call.serverAccountID} : C27_Signed(a)}
                \cup {C27_Listed[k] : k \in {k \in 1..(m - 1) : C27_Signed(C27_Listed[k])}})

C27_MalformedReached ==
  \E m \in 1..Len(C27_Listed) :
    /\ C27_Listed[m] \notin PublicKeys
    /\ \A k \in 1..(m - 1) : C27_Listed[k] \in PublicKeys
    /\ C27_ConsumedBefore(m) < Len(call.transaction.signatures)

C27_Weight ==
  Cardinality(UNION {{<<a, n>> : n \in 1..C5_WeightOf(call.signerSummary, a)} :
                       a \in C27_Matched})

C27_Fails(n) ==
  CASE n = 1 -> ~C27_Read.ok
    [] n = 2 -> call.serverAccountID \notin PublicKeys
    [] n = 3 -> Range(C27_Listed) = {}
    [] n = 4 -> C27_MalformedReached
    [] n = 5 -> ~C27_Signed(call.serverAccountID)
    [] n = 6 -> C27_Matched = {}
    [] n = 7 -> Len(call.transaction.signatures) # 1 + Cardinality(C27_Matched)
    [] n = 8 -> IsCallTo("verifyChallengeTxThreshold") /\ C27_Weight < call.threshold

C27_Error(n) ==
  CASE n = 1 -> C27_Read.err
    [] n = 2 -> ErrServerKeypair
    [] n = 3 -> ErrNoClientSigners
    [] n = 4 -> ErrInvalidSigner
    [] n = 5 -> ErrNotSignedByServer(call.serverAccountID)
    [] n = 6 -> ErrNoneMatch
    [] n = 7 -> ErrUnrecognized
    [] n = 8 -> ErrThreshold

C27_FirstFailureReported(checks) ==
  LET failing == {n \in checks : C27_Fails(n)} IN
    IF failing = {} THEN call.out.ok
    ELSE LET n == CHOOSE n \in failing : \A m \in failing : n <= m
         IN ~call.out.ok /\ call.out.err = C27_Error(n)

\* the claim as stated: it lists no check of the candidates' form
C27_Original == C27_VerifierCall => C27_FirstFailureReported((1..8) \ {4})

C27_ErrorPrecedence == C27_VerifierCall => C27_FirstFailureReported(1..8)

\* an unlisted key has signed and the weight is below the threshold
C27_Witness ==
  /\ IsCallTo("verifyChallengeTxThreshold")
  /\ call.signerSummary = <<[key |-> "GA2", weight |-> <<1>>]>>
  /\ call.threshold = 3
  /\ call.transaction.signatures =
       <<DecoratedSignature(ServerKey), DecoratedSignature("GA2"), DecoratedSignature("GB3")>>
  /\ C27_Fails(7) /\ C27_Fails(8)
  /\ call.out.err = ErrUnrecognized

(***************************************************************************)
(* C30: expiry is permanent.  At every time after the challenge's maxTime  *)
(* every call of readChallengeTx, verifyChallengeTxSigners and             *)
(* verifyChallengeTxThreshold fails, however the challenge is signed, and  *)
(* with 'The transaction has expired' unless the arguments fail a check    *)
(* made before the time bounds are looked at; a call succeeds only at      *)
(* times from minTime to maxTime.                                          *)
(***************************************************************************)
C30_Call == IsCallTo("readChallengeTx") \/ C27_VerifierCall

C30_Expired == now > challenge[1].timeBounds[1].maxTime

C30_InWindow ==
  /\ challenge[1].timeBounds[1].minTime <= now
  /\ now <= challenge[1].timeBounds[1].maxTime

C30_EarlierCheckFails ==
  \E n \in 1..8 : C9_Violated(n, challenge[1], call.serverAccountID, call.homeDomains, now)

C30_ExpiryIsPermanent ==
  C30_Call =>
    /\ call.out.ok => C30_InWindow
    /\ C30_Expired =>
         /\ ~call.out.ok
         /\ ~C30_EarlierCheckFails => call.out.err = ErrExpired

\* the server and the client have signed, the threshold is met, and the
\* clock has passed maxTime
C30_Witness ==
  /\ IsCallTo("verifyChallengeTxThreshold")
  /\ C30_Expired
  /\ call.threshold = 1
  /\ call.signerSummary = <<[key |-> "GA2", weight |-> <<1>>]>>
  /\ call.homeDomains = HdString("SDF")
  /\ challenge[1].signatures = <<DecoratedSignature(ServerKey), DecoratedSignature("GA2")>>
  /\ call.out.err = ErrExpired

====
